---- MODULE Spec2Model ----
(***************************************************************************)
(* Model of terminal_app.py (BioEntryTerminal): the main/Tk thread, the    *)
(* camera thread (camera_loop), the connectivity poll thread               *)
(* (check_online_status.check), the UI-refresh thread                      *)
(* (ui_update_loop.update) and the verification threads                    *)
(* (process_verification.verify).                                          *)
(*                                                                         *)
(* A step of a thread is one access to state shared between threads,      *)
(* together with the thread-local statements around it.  A frame is        *)
(* modelled by whether the detector finds a face in it.  Time is the       *)
(* integer clock `now` (seconds), advanced by the environment.             *)
(*                                                                         *)
(* Spec and FairSpec are the whole terminal.  FrameSpec is its frame       *)
(* pipeline (camera thread and UI-refresh thread) with the captured        *)
(* frames numbered.  CascadeSpec is the loading of the Haar cascade in     *)
(* face_detection.py and in FaceDetector, for every state of the files.    *)
(* SimpleSpec is terminal_simple.py (SimpleTerminal).                      *)
(***************************************************************************)
EXTENDS Integers, Sequences, FiniteSets, TLC

\* ---------------------------------------------------------------- bounds
\* clock value when the program starts: time.time() is seconds since the
\* epoch, so it is larger than any timeout
StartTime == 4
\* number of seconds the clock runs for
Horizon == 4
\* the clock stops advancing here
MaxTime == StartTime + Horizon
\* number of thread objects the model can hold in flight at once
MaxThreads == 2
\* number of captured frames that are told apart by a number
MaxFrames == 4
\* number of after_idle callbacks that can be pending at once
MaxIdle == 2

\* ------------------------------------------------------ program constants
\* CONFIG["camera"]["face_detection_timeout"] (default 3.0)
FaceDetectionTimeout == 3
\* queue.Queue(maxsize=2)
FrameQueueMaxSize_Off == 2 + 1
FrameQueueMaxSize == 2
\* root.after(3000, ...) in show_success / show_error, in seconds
MessageRevertDelay == 3

VThreads == 1..MaxThreads

VARIABLES
    main_pc,             \* position of the main thread in run()
    picam2,              \* state of the Picamera2 object
    now,                 \* the wall clock, time.time()
    cam_pc,              \* position of the camera thread in camera_loop
    cam_faces,           \* len(faces) > 0 for the frame of this iteration
    last_detection_time, \* self.last_detection_time
    processing,          \* self.processing
    is_online,           \* self.is_online
    frame_queue,         \* self.frame_queue, the frames in FIFO order
    v_pc,                \* position of each verification thread in verify()
    poll_pc,             \* position of the poll thread in check()
    check_failed,        \* history: the last GET /version raised or did not
                         \* answer 200
    ui_pc,               \* position of the UI-refresh thread
    message,             \* what ui.message_label shows
    revert_timers,       \* due times of the pending root.after(3000, ...)
    dispatches,          \* history: current_time of the last two dispatches
    face_isolated,       \* history: the frame of this iteration contains a
                         \* face and the frame captured before it did not
                         \* (or there was none)
    numbered,            \* history: captured frames are being numbered
    frame_no,            \* history: number of the frame of this iteration
    enqueued,            \* history: numbers of the frames put in the queue
    shown,               \* history: numbers of the frames displayed, in
                         \* the order of display
    \* cascade loading (face_detection.py and FaceDetector)
    c_prog,              \* the program that is loading the cascade
    c_paths,             \* what is found at each path of the list
    c_i,                 \* position of the for loop in the list
    c_cascade,           \* the path the classifier held was loaded from,
                         \* 0 for None
    c_pc,                \* position of the program
    c_camera,            \* state of the Picamera2 object of the program
    \* terminal_simple.py (TerminalSimple)
    s_main_pc,           \* position of the main thread in run / exit_app
    s_cam_pc,            \* position of the camera thread in camera_loop
    s_running,           \* self.running
    s_picam2,            \* state of self.picam2
    s_window,            \* state of the Tk root window
    s_idle,              \* number of pending after_idle(update_video, ...)
    s_label              \* video_label shows a frame

vars == <<main_pc, picam2, now, cam_pc, cam_faces, last_detection_time,
          processing, is_online, frame_queue, v_pc,
          poll_pc, check_failed, ui_pc, message, revert_timers,
          dispatches, face_isolated, numbered, frame_no, enqueued, shown,
          c_prog, c_paths, c_i, c_cascade, c_pc, c_camera,
          s_main_pc, s_cam_pc, s_running, s_picam2, s_window, s_idle,
          s_label>>

main_vars == <<main_pc, picam2>>
cam_vars == <<cam_pc, cam_faces, last_detection_time>>
poll_vars == <<poll_pc, check_failed, is_online>>
ui_vars == <<ui_pc>>
msg_vars == <<message, revert_timers>>
hist_vars == <<dispatches, face_isolated>>
frame_vars == <<frame_no, enqueued, shown>>
cascade_vars == <<c_prog, c_paths, c_i, c_cascade, c_pc, c_camera>>
simple_vars == <<s_main_pc, s_cam_pc, s_running, s_picam2, s_window, s_idle,
                 s_label>>
\* what no step of terminal_app.py changes
aux_vars == <<numbered, cascade_vars, simple_vars>>
\* what only the steps of terminal_app.py change
vars_terminal == <<main_pc, picam2, now, cam_pc, cam_faces,
                   last_detection_time, processing, is_online, frame_queue,
                   v_pc, poll_pc, check_failed, ui_pc, message,
                   revert_timers, dispatches, face_isolated, numbered,
                   frame_no, enqueued, shown>>

\* the process is alive: daemon threads run only until the main thread ends
Alive == main_pc # "exited"

\* a verification thread that was started and has not finished
InFlight(i) == v_pc[i] \notin {"idle", "killed"}
InFlightThreads == {i \in VThreads : InFlight(i)}

\* ------------------------------------------------------------------ Init
TerminalInit ==
    /\ main_pc = "run"
    /\ picam2 = "configured"
    /\ now = StartTime
    /\ cam_pc = "unstarted"
    /\ cam_faces = FALSE
    /\ last_detection_time = 0
    /\ processing = FALSE
    /\ is_online = FALSE
    /\ frame_queue = <<>>
    /\ v_pc = [i \in VThreads |-> "idle"]
    /\ poll_pc = "unstarted"
    /\ check_failed = FALSE
    /\ ui_pc = "unstarted"
    /\ message = "prompt"
    /\ revert_timers = {}
    /\ dispatches = <<>>
    /\ face_isolated = FALSE
    /\ frame_no = 0
    /\ enqueued = {}
    /\ shown = <<>>

\* number of entries of face_cascade_paths / cascade_paths
NumCascadePaths == 4

CascadePaths == 1..NumCascadePaths

\* no cascade is being loaded
CascadeOff ==
    /\ c_prog = "none"
    /\ c_paths = [p \in CascadePaths |-> "valid"]
    /\ c_i = 1
    /\ c_cascade = 0
    /\ c_pc = "off"
    /\ c_camera = "none"

\* terminal_simple.py is not running
SimpleOff ==
    /\ s_main_pc = "off"
    /\ s_cam_pc = "off"
    /\ s_running = FALSE
    /\ s_picam2 = "none"
    /\ s_window = "none"
    /\ s_idle = 0
    /\ s_label = FALSE

\* The terminal as started by the main block; frames are not numbered.
Init ==
    /\ TerminalInit
    /\ numbered = FALSE
    /\ CascadeOff
    /\ SimpleOff

\* ------------------------------------------------------------------ clock
\* Time passes while the camera thread is in a blocking call
\* (capture_array, and the time.sleep that precedes it on every path) or
\* has ended; the statements of one iteration between these calls take no
\* time on a clock of seconds.
Tick ==
    /\ Alive
    /\ cam_pc \in {"capture", "dead"}
    /\ now < MaxTime
    /\ now' = now + 1
    /\ UNCHANGED <<frame_vars, aux_vars>>
    /\ UNCHANGED <<main_vars, cam_vars, processing, frame_queue, v_pc,
                   poll_vars, ui_vars, msg_vars, hist_vars>>

\* ------------------------------------------------------------ UI helpers
\* TerminalUI.show_success / show_error: set the message and schedule the
\* revert to the prompt 3000 ms later
AfterRevert(timers) == timers \cup {now + MessageRevertDelay}

\* ------------------------------------------------------------ main thread
\* BioEntryTerminal.run, lines 605-612: start the poll thread, the
\* UI-refresh thread and the camera thread, then enter the Tk main loop
run ==
    /\ main_pc = "run"
    /\ main_pc' = "mainloop"
    /\ poll_pc' = "check"
    /\ ui_pc' = "running"
    /\ cam_pc' = "start"
    /\ UNCHANGED <<frame_vars, aux_vars>>
    /\ UNCHANGED <<picam2, now, cam_faces, last_detection_time,
                   processing, is_online, frame_queue, v_pc, check_failed,
                   message, revert_timers, hist_vars>>

\* Tk main loop: a due root.after timer runs
\* lambda: self.show_message("COLOQUESE FRENTE A LA CAMARA")
mainloop_timer ==
    /\ main_pc = "mainloop"
    /\ \E t \in revert_timers :
          /\ t <= now
          /\ revert_timers' = revert_timers \ {t}
          /\ message' = "prompt"
    /\ UNCHANGED <<frame_vars, aux_vars>>
    /\ UNCHANGED <<main_vars, now, cam_vars, processing, frame_queue, v_pc,
                   poll_vars, ui_vars, hist_vars>>

\* TerminalUI.exit_app (root.quit() ends mainloop()), then the finally
\* clause of run and BioEntryTerminal.cleanup: the main thread stops the
\* camera, after which the process ends and takes its daemon threads with it
cleanup ==
    /\ main_pc = "mainloop"
    /\ picam2' = "stopped"
    /\ main_pc' = "exited"
    /\ cam_pc' = "killed"
    /\ poll_pc' = "killed"
    /\ ui_pc' = "killed"
    /\ v_pc' = [i \in VThreads |-> "killed"]
    /\ UNCHANGED <<frame_vars, aux_vars>>
    /\ UNCHANGED <<now, cam_faces, last_detection_time, processing,
                   is_online, frame_queue, check_failed, msg_vars,
                   hist_vars>>

\* ---------------------------------------------------------- camera thread
\* camera_loop, lines 491-492: picam2.start(); time.sleep(2)
camera_loop_start ==
    /\ Alive
    /\ cam_pc = "start"
    /\ picam2' = "started"
    /\ cam_pc' = "capture"
    /\ UNCHANGED <<frame_vars, aux_vars>>
    /\ UNCHANGED <<main_pc, now, cam_faces, last_detection_time,
                   processing, frame_queue, v_pc,
                   poll_vars, ui_vars, msg_vars, hist_vars>>

\* camera_loop, lines 528-530: picam2.start() raised; the outer handler
\* prints, calls ui.show_error (which may itself raise) and the thread ends
camera_loop_critical ==
    /\ Alive
    /\ cam_pc = "start"
    /\ cam_pc' = "dead"
    /\ \/ /\ message' = "error"
          /\ revert_timers' = AfterRevert(revert_timers)
       \/ UNCHANGED msg_vars
    /\ UNCHANGED <<frame_vars, aux_vars>>
    /\ UNCHANGED <<main_vars, now, cam_faces, last_detection_time,
                   processing, frame_queue, v_pc,
                   poll_vars, ui_vars, hist_vars>>

\* camera_loop, lines 497-504: capture_array, detect_faces, draw_faces.
\* The frame is modelled by whether the detector finds a face in it and,
\* when frames are numbered, by its number in the order of capture; the
\* numbering stops after MaxFrames frames.
camera_loop_capture ==
    /\ Alive
    /\ cam_pc = "capture"
    /\ numbered => frame_no < MaxFrames
    /\ \E face \in BOOLEAN :
          /\ cam_faces' = face
          /\ face_isolated' = (face /\ ~cam_faces)
    /\ frame_no' = IF numbered THEN frame_no + 1 ELSE frame_no
    /\ cam_pc' = "offer"
    /\ UNCHANGED <<enqueued, shown, aux_vars>>
    /\ UNCHANGED <<main_vars, now, last_detection_time,
                   processing, frame_queue, v_pc, poll_vars, ui_vars,
                   msg_vars, dispatches>>

\* the frame the camera thread holds in this iteration (frame_with_faces)
Frame == [face |-> cam_faces, no |-> frame_no]

\* queue.Queue.full()
FrameQueueFull(q) == Len(q) >= FrameQueueMaxSize

\* queue.Queue.put(item, block=False): raises queue.Full (caught at line
\* 510) when the queue is full, leaving the queue as it was
FrameQueuePut(q, f) == IF Len(q) < FrameQueueMaxSize THEN Append(q, f) ELSE q

\* a producer that makes room by throwing away the oldest queued frame
camera_loop_offer_overwrite ==
    /\ Alive
    /\ cam_pc = "offer"
    /\ IF FrameQueueFull(frame_queue)
       THEN /\ frame_queue' = Append(Tail(frame_queue), Frame)
            /\ cam_pc' = "gate"
       ELSE /\ cam_pc' = "put"
            /\ UNCHANGED frame_queue
    /\ UNCHANGED <<frame_vars, aux_vars>>
    /\ UNCHANGED <<main_vars, now, cam_faces, last_detection_time,
                   processing, v_pc, poll_vars, ui_vars,
                   msg_vars, hist_vars>>

\* camera_loop, line 508: if not self.frame_queue.full()
camera_loop_offer ==
    /\ Alive
    /\ cam_pc = "offer"
    /\ cam_pc' = IF FrameQueueFull(frame_queue) THEN "gate" ELSE "put"
    /\ UNCHANGED <<frame_vars, aux_vars>>
    /\ UNCHANGED <<main_vars, now, cam_faces, last_detection_time,
                   processing, frame_queue, v_pc,
                   poll_vars, ui_vars, msg_vars, hist_vars>>

\* camera_loop, lines 509-511: self.frame_queue.put(frame, block=False)
camera_loop_put ==
    /\ Alive
    /\ cam_pc = "put"
    /\ frame_queue' = FrameQueuePut(frame_queue, Frame)
    /\ enqueued' = IF numbered /\ frame_queue' # frame_queue
                   THEN enqueued \cup {frame_no}
                   ELSE enqueued
    /\ cam_pc' = "gate"
    /\ UNCHANGED <<frame_no, shown, aux_vars>>
    /\ UNCHANGED <<main_vars, now, cam_faces, last_detection_time,
                   processing, v_pc, poll_vars, ui_vars,
                   msg_vars, hist_vars>>

\* camera_loop, line 514 (and the sleep of line 522 when the test fails):
\* if len(faces) > 0 and not self.processing
camera_loop_gate ==
    /\ Alive
    /\ cam_pc = "gate"
    /\ cam_pc' = IF cam_faces /\ ~processing THEN "time" ELSE "capture"
    /\ UNCHANGED <<frame_vars, aux_vars>>
    /\ UNCHANGED <<main_vars, now, cam_faces, last_detection_time,
                   processing, frame_queue, v_pc,
                   poll_vars, ui_vars, msg_vars, hist_vars>>

\* a gate that also fires when exactly the timeout has passed
CooldownElapsed_geq(cur, last) == cur - last >= FaceDetectionTimeout

\* camera_loop, line 518
CooldownElapsed(cur, last) == cur - last > FaceDetectionTimeout

\* a gate that stamps the detection time before it compares
camera_loop_time_stamp_first ==
    /\ Alive
    /\ cam_pc = "time"
    /\ LET current_time == now
       IN  /\ last_detection_time' = current_time
           /\ cam_pc' = IF CooldownElapsed(current_time, last_detection_time)
                           /\ ~processing
                        THEN "pv_set" ELSE "capture"
    /\ UNCHANGED <<frame_vars, aux_vars>>
    /\ UNCHANGED <<main_vars, now, cam_faces, processing, frame_queue, v_pc,
                   poll_vars, ui_vars, msg_vars, hist_vars>>

\* camera_loop, lines 515-520, and process_verification, lines 534-535:
\* read the clock, compare with last_detection_time, stamp it when the
\* cooldown has elapsed and call process_verification, which returns at
\* once if self.processing.  Up to that read of processing the step is
\* local to the camera thread.
camera_loop_time ==
    /\ Alive
    /\ cam_pc = "time"
    /\ LET current_time == now
       IN  IF CooldownElapsed(current_time, last_detection_time)
           THEN /\ last_detection_time' = current_time
                /\ cam_pc' = IF processing THEN "capture" ELSE "pv_set"
           ELSE /\ cam_pc' = "capture"
                /\ UNCHANGED last_detection_time
    /\ UNCHANGED <<frame_vars, aux_vars>>
    /\ UNCHANGED <<main_vars, now, cam_faces, processing, frame_queue, v_pc,
                   poll_vars, ui_vars, msg_vars, hist_vars>>

\* a dispatch that forgets to raise the flag
process_verification_set_forgot ==
    /\ Alive
    /\ cam_pc = "pv_set"
    /\ cam_pc' = "pv_start"
    /\ UNCHANGED <<frame_vars, aux_vars>>
    /\ UNCHANGED <<main_vars, now, cam_faces, last_detection_time,
                   processing, frame_queue, v_pc,
                   poll_vars, ui_vars, msg_vars, hist_vars>>

\* process_verification, line 537: self.processing = True
process_verification_set ==
    /\ Alive
    /\ cam_pc = "pv_set"
    /\ processing' = TRUE
    /\ cam_pc' = "pv_start"
    /\ UNCHANGED <<frame_vars, aux_vars>>
    /\ UNCHANGED <<main_vars, now, cam_faces, last_detection_time,
                   frame_queue, v_pc, poll_vars,
                   ui_vars, msg_vars, hist_vars>>

\* the thread object the next threading.Thread(...) creates
NewThread == CHOOSE i \in VThreads :
                /\ ~InFlight(i)
                /\ \A j \in VThreads : ~InFlight(j) => i <= j

\* the last two dispatch times; the time of a dispatch is the current_time
\* of line 515, which line 519 stored in last_detection_time
Record(ds, t) == IF Len(ds) < 2 THEN Append(ds, t) ELSE <<ds[2], t>>

\* a dispatch that waits for the verification: thread.start(); thread.join()
process_verification_start_join ==
    /\ Alive
    /\ cam_pc = "pv_start"
    /\ \E i \in VThreads : ~InFlight(i)
    /\ v_pc' = [v_pc EXCEPT ![NewThread] = "begin"]
    /\ dispatches' = Record(dispatches, last_detection_time)
    /\ cam_pc' = "pv_join"
    /\ UNCHANGED <<frame_vars, aux_vars>>
    /\ UNCHANGED <<main_vars, now, cam_faces, last_detection_time,
                   processing, frame_queue, poll_vars,
                   ui_vars, msg_vars, face_isolated>>

\* process_verification, lines 576-577 (and the sleep of line 522):
\* thread = threading.Thread(target=verify, daemon=True); thread.start()
process_verification_start ==
    /\ Alive
    /\ cam_pc = "pv_start"
    /\ \E i \in VThreads : ~InFlight(i)
    /\ v_pc' = [v_pc EXCEPT ![NewThread] = "begin"]
    /\ dispatches' = Record(dispatches, last_detection_time)
    /\ cam_pc' = "capture"
    /\ UNCHANGED <<frame_vars, aux_vars>>
    /\ UNCHANGED <<main_vars, now, cam_faces, last_detection_time,
                   processing, frame_queue, poll_vars,
                   ui_vars, msg_vars, face_isolated>>

\* an iteration without the inner try: the exception ends the loop
camera_loop_except_fatal ==
    /\ Alive
    /\ cam_pc \in {"capture", "put", "pv_start"}
    /\ cam_pc' = "dead"
    /\ UNCHANGED <<frame_vars, aux_vars>>
    /\ UNCHANGED <<main_vars, now, cam_faces, last_detection_time,
                   processing, frame_queue, v_pc,
                   poll_vars, ui_vars, msg_vars, hist_vars>>

\* camera_loop, line 524: an exception raised in the iteration by
\* capture_array / cvtColor / detect_faces / draw_faces (at "capture"), by
\* the enqueueing (at "put") or by thread.start() (at "pv_start") is caught
camera_loop_except ==
    /\ Alive
    /\ cam_pc \in {"capture", "put", "pv_start"}
    /\ cam_pc' = "handler"
    /\ UNCHANGED <<frame_vars, aux_vars>>
    /\ UNCHANGED <<main_vars, now, cam_faces, last_detection_time,
                   processing, frame_queue, v_pc,
                   poll_vars, ui_vars, msg_vars, hist_vars>>

\* a handler that clears the flag to let the next detection through
camera_loop_handler_reset ==
    /\ Alive
    /\ cam_pc = "handler"
    /\ cam_pc' = "capture"
    /\ processing' = FALSE
    /\ UNCHANGED <<frame_vars, aux_vars>>
    /\ UNCHANGED <<main_vars, now, cam_faces, last_detection_time,
                   frame_queue, v_pc,
                   poll_vars, ui_vars, msg_vars, hist_vars>>

\* camera_loop, lines 525-526: print the error, time.sleep(1), next iteration
camera_loop_handler ==
    /\ Alive
    /\ cam_pc = "handler"
    /\ cam_pc' = "capture"
    /\ UNCHANGED <<frame_vars, aux_vars>>
    /\ UNCHANGED <<main_vars, now, cam_faces, last_detection_time,
                   processing, frame_queue, v_pc,
                   poll_vars, ui_vars, msg_vars, hist_vars>>

camera_loop ==
    \/ camera_loop_start
    \/ camera_loop_critical
    \/ camera_loop_capture
    \/ camera_loop_offer
    \/ camera_loop_put
    \/ camera_loop_gate
    \/ camera_loop_time
    \/ process_verification_set
    \/ process_verification_start
    \/ camera_loop_except
    \/ camera_loop_handler

\* --------------------------------------------------- verification threads
\* verify, lines 541-548: ui.show_message("Procesando..."), cv2.imencode.
\* Either call may raise: show_message before the message changed, imencode
\* (success False, line 546) after it.
verify_begin(i) ==
    /\ Alive
    /\ v_pc[i] = "begin"
    /\ \/ /\ message' = "processing"
          /\ v_pc' = [v_pc EXCEPT ![i] = "read_online"]
       \/ /\ message' = "processing"
          /\ v_pc' = [v_pc EXCEPT ![i] = "handler"]
       \/ /\ UNCHANGED message
          /\ v_pc' = [v_pc EXCEPT ![i] = "handler"]
    /\ UNCHANGED <<frame_vars, aux_vars>>
    /\ UNCHANGED <<main_vars, now, cam_vars, processing, frame_queue,
                   poll_vars, ui_vars, revert_timers, hist_vars>>

\* a thread that sends the request whatever the connectivity flag says
verify_read_online_skip(i) ==
    /\ Alive
    /\ v_pc[i] = "read_online"
    /\ v_pc' = [v_pc EXCEPT ![i] = "post"]
    /\ UNCHANGED <<frame_vars, aux_vars>>
    /\ UNCHANGED <<main_vars, now, cam_vars, processing, frame_queue,
                   poll_vars, ui_vars, msg_vars, hist_vars>>

\* verify, line 550: if self.is_online
verify_read_online(i) ==
    /\ Alive
    /\ v_pc[i] = "read_online"
    /\ v_pc' = [v_pc EXCEPT ![i] = IF is_online THEN "post"
                                   ELSE "show_offline"]
    /\ UNCHANGED <<frame_vars, aux_vars>>
    /\ UNCHANGED <<main_vars, now, cam_vars, processing, frame_queue,
                   poll_vars, ui_vars, msg_vars, hist_vars>>

\* what POST /verify-terminal/auto can come to
PostOutcomes == {"verified", "rejected", "api_error", "conn_error"}

\* APIClient.verify_face_auto, lines 198-207, and verify, line 554: a 200
\* answer is returned and branches on result.get('verified'); any other
\* status and any request error is raised as an Exception
AfterPost(outcome) ==
    CASE outcome = "verified" -> "show_success"
      [] outcome = "rejected" -> "show_failed"
      [] OTHER -> "handler"

\* verify, line 552: result = self.api_client.verify_face_auto(img_bytes)
verify_post(i) ==
    /\ Alive
    /\ v_pc[i] = "post"
    /\ \E outcome \in PostOutcomes :
          v_pc' = [v_pc EXCEPT ![i] = AfterPost(outcome)]
    /\ UNCHANGED <<frame_vars, aux_vars>>
    /\ UNCHANGED <<main_vars, now, cam_vars, processing, frame_queue,
                   poll_vars, ui_vars, msg_vars, hist_vars>>

\* the message each result branch shows
ResultMessage(pc) ==
    CASE pc = "show_success" -> "success"
      [] pc = "show_failed" -> "failed"
      [] pc = "show_offline" -> "offline_unavailable"

\* verify, lines 556, 559, 564: ui.show_success / ui.show_error of the
\* result; a call that raises goes to the handler of line 567
verify_show(i) ==
    /\ Alive
    /\ v_pc[i] \in {"show_success", "show_failed", "show_offline"}
    /\ \/ /\ message' = ResultMessage(v_pc[i])
          /\ revert_timers' = AfterRevert(revert_timers)
          /\ v_pc' = [v_pc EXCEPT ![i] = "finally"]
       \/ /\ UNCHANGED msg_vars
          /\ v_pc' = [v_pc EXCEPT ![i] = "handler"]
    /\ UNCHANGED <<frame_vars, aux_vars>>
    /\ UNCHANGED <<main_vars, now, cam_vars, processing, frame_queue,
                   poll_vars, ui_vars, hist_vars>>

\* a handler whose own failure ends the thread at once
verify_handler_nofinally(i) ==
    /\ Alive
    /\ v_pc[i] = "handler"
    /\ \/ /\ message' = "error"
          /\ revert_timers' = AfterRevert(revert_timers)
          /\ v_pc' = [v_pc EXCEPT ![i] = "finally"]
       \/ /\ UNCHANGED msg_vars
          /\ v_pc' = [v_pc EXCEPT ![i] = "idle"]
    /\ UNCHANGED <<frame_vars, aux_vars>>
    /\ UNCHANGED <<main_vars, now, cam_vars, processing, frame_queue,
                   poll_vars, ui_vars, hist_vars>>

\* verify, lines 567-570: except Exception: ui.show_error(error_msg).
\* When show_error raises too, the exception leaves through the finally
\* clause.
verify_handler(i) ==
    /\ Alive
    /\ v_pc[i] = "handler"
    /\ \/ /\ message' = "error"
          /\ revert_timers' = AfterRevert(revert_timers)
       \/ UNCHANGED msg_vars
    /\ v_pc' = [v_pc EXCEPT ![i] = "finally"]
    /\ UNCHANGED <<frame_vars, aux_vars>>
    /\ UNCHANGED <<main_vars, now, cam_vars, processing, frame_queue,
                   poll_vars, ui_vars, hist_vars>>

\* verify, lines 572-573: finally: self.processing = False; the thread ends
verify_finally(i) ==
    /\ Alive
    /\ v_pc[i] = "finally"
    /\ processing' = FALSE
    /\ v_pc' = [v_pc EXCEPT ![i] = "idle"]
    /\ UNCHANGED <<frame_vars, aux_vars>>
    /\ UNCHANGED <<main_vars, now, cam_vars, frame_queue, poll_vars, ui_vars,
                   msg_vars, hist_vars>>

\* one step of verification thread i
verify_thread(i) ==
    \/ verify_begin(i)
    \/ verify_read_online(i)
    \/ verify_post(i)
    \/ verify_show(i)
    \/ verify_handler(i)
    \/ verify_finally(i)

verify == \E i \in VThreads : verify_thread(i)

\* ------------------------------------------------------------ poll thread
\* what GET /version can come to
CheckOutcomes == {"ok200", "non200", "raise"}

\* a check that takes every answer for a connection
check_connection_anystatus(outcome) == outcome # "raise"

\* APIClient.check_connection: response.status_code == 200, False on any
\* exception
check_connection(outcome) == outcome = "ok200"

\* check, lines 476-478 (and the sleep of line 483 when nothing changed):
\* online = self.api_client.check_connection();
\* if online != self.is_online: self.is_online = online.  Only this thread
\* writes is_online, so the request and the comparison are one step.
check_request ==
    /\ Alive
    /\ poll_pc = "check"
    /\ \E outcome \in CheckOutcomes :
          LET online == check_connection(outcome)
          IN  /\ check_failed' = (outcome # "ok200")
              /\ IF online # is_online
                 THEN /\ is_online' = online
                      /\ poll_pc' = "update"
                 ELSE UNCHANGED <<is_online, poll_pc>>
    /\ UNCHANGED <<frame_vars, aux_vars>>
    /\ UNCHANGED <<main_vars, now, cam_vars, processing, frame_queue, v_pc,
                   ui_vars, msg_vars, hist_vars>>

\* check, lines 479-483: self.ui.update_status(online), print; an exception
\* they raise is swallowed by the bare except; time.sleep(5), next
\* iteration.  The text of the status label is not part of the state.
check_update_status ==
    /\ Alive
    /\ poll_pc = "update"
    /\ poll_pc' = "check"
    /\ UNCHANGED <<frame_vars, aux_vars>>
    /\ UNCHANGED <<main_vars, now, cam_vars, processing, is_online,
                   frame_queue, v_pc, check_failed, ui_vars, msg_vars,
                   hist_vars>>

check ==
    \/ check_request
    \/ check_update_status

\* ------------------------------------------------------ UI-refresh thread
\* a consumer that takes the newest queued frame instead of the oldest
update_lifo ==
    /\ Alive
    /\ ui_pc = "running"
    /\ frame_queue # <<>>
    /\ frame_queue' = SubSeq(frame_queue, 1, Len(frame_queue) - 1)
    /\ \E displayed \in BOOLEAN :
          shown' = IF numbered /\ displayed
                   THEN Append(shown, frame_queue[Len(frame_queue)].no)
                   ELSE shown
    /\ UNCHANGED <<frame_no, enqueued, aux_vars>>
    /\ UNCHANGED <<main_vars, now, cam_vars, processing, v_pc, poll_vars,
                   ui_pc, msg_vars, hist_vars>>

\* update, lines 585-592: frame = self.frame_queue.get(timeout=0.1);
\* self.ui.update_camera_frame(frame), whose exception is caught at line
\* 589.  Either way the frame has left the queue; the picture the camera
\* label shows is not part of the state; when frames are numbered the
\* number of a frame that update_camera_frame displayed is recorded.  On an
\* empty queue get raises queue.Empty after its timeout and nothing changes.
update ==
    /\ Alive
    /\ ui_pc = "running"
    /\ frame_queue # <<>>
    /\ frame_queue' = Tail(frame_queue)
    /\ \E displayed \in BOOLEAN :
          shown' = IF numbered /\ displayed
                   THEN Append(shown, Head(frame_queue).no)
                   ELSE shown
    /\ UNCHANGED <<frame_no, enqueued, aux_vars>>
    /\ UNCHANGED <<main_vars, now, cam_vars, processing, v_pc, poll_vars,
                   ui_pc, msg_vars, hist_vars>>

\* ------------------------------------------------------------------ Spec
Next ==
    \/ Tick
    \/ run
    \/ mainloop_timer
    \/ cleanup
    \/ camera_loop
    \/ verify
    \/ check
    \/ update

Spec == Init /\ [][Next]_vars

\* A started thread runs: the interpreter schedules every runnable thread,
\* requests.post returns within its timeout and the UI calls return or raise
FairSpec == Spec /\ WF_vars(verify)

\* the camera thread is inside camera_loop, neither before its loop nor ended
CamRunning == cam_pc \notin {"unstarted", "start", "dead", "killed"}

\* ------------------------------------------------------- frame pipeline
\* The camera thread and the UI-refresh thread with the frames numbered in
\* the order of capture.  The clock, the poll thread, the verification
\* threads and the Tk timers never touch frame_queue and are left out: a
\* dispatched verification stays in flight.
FrameInit ==
    /\ TerminalInit
    /\ numbered = TRUE
    /\ CascadeOff
    /\ SimpleOff

FrameNext ==
    \/ run
    \/ cleanup
    \/ camera_loop
    \/ update

FrameSpec == FrameInit /\ [][FrameNext]_vars

\* -------------------------------------------------------- cascade loading
\* What a path of the list leads to: no file, a file from which
\* cv2.CascadeClassifier builds an empty classifier, or a file from which it
\* builds a usable one.
PathStates == {"missing", "empty", "valid"}

\* os.path.exists(path)
Exists(p) == c_paths[p] # "missing"

\* cv2.CascadeClassifier(path).empty()
Empty(p) == c_paths[p] # "valid"

\* A program starts to load the cascade, with any files on the disk.  The
\* variables of terminal_app.py's threads and of terminal_simple.py play no
\* part and stay as they are.
CascadeInit ==
    /\ TerminalInit
    /\ numbered = FALSE
    /\ SimpleOff
    /\ c_prog \in {"face_detection", "terminal_app"}
    /\ c_paths \in [CascadePaths -> PathStates]
    /\ c_i = 1
    /\ c_cascade = 0
    /\ c_pc = "loop"
    /\ c_camera = "none"

\* a loop that stops at the first path that exists
script_loop_exists_only ==
    /\ c_prog = "face_detection"
    /\ c_pc = "loop"
    /\ c_i <= NumCascadePaths
    /\ IF Exists(c_i)
       THEN /\ c_cascade' = c_i
            /\ c_pc' = "check"
            /\ UNCHANGED c_i
       ELSE /\ c_i' = c_i + 1
            /\ UNCHANGED <<c_cascade, c_pc>>
    /\ UNCHANGED <<c_prog, c_paths, c_camera>>
    /\ UNCHANGED <<vars_terminal, simple_vars>>

\* face_detection.py, lines 20-25: one iteration of the for loop; break
\* leaves the loop for the test of line 27
script_loop ==
    /\ c_prog = "face_detection"
    /\ c_pc = "loop"
    /\ c_i <= NumCascadePaths
    /\ IF Exists(c_i)
       THEN /\ c_cascade' = c_i
            /\ IF ~Empty(c_i)
               THEN /\ c_pc' = "check"
                    /\ UNCHANGED c_i
               ELSE /\ c_i' = c_i + 1
                    /\ UNCHANGED c_pc
       ELSE /\ c_i' = c_i + 1
            /\ UNCHANGED <<c_cascade, c_pc>>
    /\ UNCHANGED <<c_prog, c_paths, c_camera>>
    /\ UNCHANGED <<vars_terminal, simple_vars>>

\* face_detection.py, line 20: the list is exhausted
script_loop_end ==
    /\ c_prog = "face_detection"
    /\ c_pc = "loop"
    /\ c_i > NumCascadePaths
    /\ c_pc' = "check"
    /\ UNCHANGED <<c_prog, c_paths, c_i, c_cascade, c_camera>>
    /\ UNCHANGED <<vars_terminal, simple_vars>>

\* face_detection.py, lines 27-30: if face_cascade is None or
\* face_cascade.empty(): exit(1)
script_check ==
    /\ c_prog = "face_detection"
    /\ c_pc = "check"
    /\ c_pc' = IF c_cascade = 0 \/ Empty(c_cascade) THEN "failed" ELSE "camera"
    /\ UNCHANGED <<c_prog, c_paths, c_i, c_cascade, c_camera>>
    /\ UNCHANGED <<vars_terminal, simple_vars>>

\* face_detection.py, lines 33-41: Picamera2(), configure, start
script_camera ==
    /\ c_prog = "face_detection"
    /\ c_pc = "camera"
    /\ c_camera' = "started"
    /\ c_pc' = "running"
    /\ UNCHANGED <<c_prog, c_paths, c_i, c_cascade>>
    /\ UNCHANGED <<vars_terminal, simple_vars>>

\* FaceDetector._load_face_cascade, lines 79-84: one iteration of the for
\* loop; return cascade leaves __init__ of FaceDetector
load_face_cascade ==
    /\ c_prog = "terminal_app"
    /\ c_pc = "loop"
    /\ c_i <= NumCascadePaths
    /\ IF Exists(c_i)
       THEN /\ c_cascade' = c_i
            /\ IF ~Empty(c_i)
               THEN /\ c_pc' = "camera"
                    /\ UNCHANGED c_i
               ELSE /\ c_i' = c_i + 1
                    /\ UNCHANGED c_pc
       ELSE /\ c_i' = c_i + 1
            /\ UNCHANGED <<c_cascade, c_pc>>
    /\ UNCHANGED <<c_prog, c_paths, c_camera>>
    /\ UNCHANGED <<vars_terminal, simple_vars>>

\* FaceDetector._load_face_cascade, line 86: raise Exception, which leaves
\* BioEntryTerminal.__init__ at line 446 and ends the program
load_face_cascade_raise ==
    /\ c_prog = "terminal_app"
    /\ c_pc = "loop"
    /\ c_i > NumCascadePaths
    /\ c_pc' = "failed"
    /\ UNCHANGED <<c_prog, c_paths, c_i, c_cascade, c_camera>>
    /\ UNCHANGED <<vars_terminal, simple_vars>>

\* BioEntryTerminal.__init__, lines 452-453, run, and camera_loop, line
\* 491: Picamera2(), setup_camera, picam2.start()
terminal_camera ==
    /\ c_prog = "terminal_app"
    /\ c_pc = "camera"
    /\ c_camera' = "started"
    /\ c_pc' = "running"
    /\ UNCHANGED <<c_prog, c_paths, c_i, c_cascade>>
    /\ UNCHANGED <<vars_terminal, simple_vars>>

CascadeNext ==
    \/ script_loop
    \/ script_loop_end
    \/ script_check
    \/ script_camera
    \/ load_face_cascade
    \/ load_face_cascade_raise
    \/ terminal_camera

CascadeSpec == CascadeInit /\ [][CascadeNext]_vars

\* ------------------------------------------------------ terminal_simple.py
\* SimpleTerminal: the main/Tk thread (run, the callbacks of mainloop,
\* exit_app) and the camera thread (camera_loop).  The variables of
\* terminal_app.py and of the cascade loading play no part and stay as they
\* are.
SimpleInit ==
    /\ TerminalInit
    /\ numbered = FALSE
    /\ CascadeOff
    /\ s_main_pc = "run"
    /\ s_cam_pc = "unstarted"
    /\ s_running = TRUE
    /\ s_picam2 = "configured"
    /\ s_window = "alive"
    /\ s_idle = 0
    /\ s_label = FALSE

\* run, lines 136-140: start the camera thread, enter mainloop
simple_run ==
    /\ s_main_pc = "run"
    /\ s_main_pc' = "mainloop"
    /\ s_cam_pc' = "start"
    /\ UNCHANGED <<s_running, s_picam2, s_window, s_idle, s_label>>
    /\ UNCHANGED <<vars_terminal, cascade_vars>>

\* update_video, lines 118-122, run by mainloop for a pending after_idle
\* callback: the label is changed if self.running
simple_update_video ==
    /\ s_main_pc = "mainloop"
    /\ s_idle > 0
    /\ s_idle' = s_idle - 1
    /\ s_label' = (s_label \/ s_running)
    /\ UNCHANGED <<s_main_pc, s_cam_pc, s_running, s_picam2, s_window>>
    /\ UNCHANGED <<vars_terminal, cascade_vars>>

\* exit_app, line 126, called by mainloop for Escape or q, or by the
\* finally clause of run after a KeyboardInterrupt: self.running = False
simple_exit_app_running ==
    /\ s_main_pc = "mainloop"
    /\ s_running' = FALSE
    /\ s_main_pc' = "exit_stop"
    /\ UNCHANGED <<s_cam_pc, s_picam2, s_window, s_idle, s_label>>
    /\ UNCHANGED <<vars_terminal, cascade_vars>>

\* exit_app, lines 127-128: self.picam2.stop()
simple_exit_app_stop ==
    /\ s_main_pc = "exit_stop"
    /\ s_picam2' = "stopped"
    /\ s_main_pc' = "exit_destroy"
    /\ UNCHANGED <<s_cam_pc, s_running, s_window, s_idle, s_label>>
    /\ UNCHANGED <<vars_terminal, cascade_vars>>

\* exit_app, lines 129-130: self.root.quit(); self.root.destroy(); the
\* pending callbacks go with the window
simple_exit_app_destroy ==
    /\ s_main_pc = "exit_destroy"
    /\ s_window' = "destroyed"
    /\ s_idle' = 0
    /\ s_main_pc' = "finally"
    /\ UNCHANGED <<s_cam_pc, s_running, s_picam2, s_label>>
    /\ UNCHANGED <<vars_terminal, cascade_vars>>

\* run, lines 144-145: mainloop has returned and the finally clause calls
\* exit_app again; lines 126-128: self.running = False; self.picam2.stop()
simple_finally ==
    /\ s_main_pc = "finally"
    /\ s_main_pc' = "finally_destroy"
    /\ s_running' = FALSE
    /\ s_picam2' = "stopped"
    /\ UNCHANGED <<s_cam_pc, s_window, s_idle, s_label>>
    /\ UNCHANGED <<vars_terminal, cascade_vars>>

\* exit_app, lines 129-130, on the destroyed window: Tk raises, the
\* exception leaves run and is printed by the main block, lines 150-151;
\* the program ends, and with it the daemon camera thread
simple_exit ==
    /\ s_main_pc = "finally_destroy"
    /\ s_main_pc' = "exited"
    /\ s_cam_pc' = "killed"
    /\ UNCHANGED <<s_running, s_picam2, s_window, s_idle, s_label>>
    /\ UNCHANGED <<vars_terminal, cascade_vars>>

\* camera_loop, lines 82-83: self.picam2.start(); time.sleep(1)
simple_camera_start ==
    /\ s_cam_pc = "start"
    /\ s_picam2' = "started"
    /\ s_cam_pc' = "while"
    /\ UNCHANGED <<s_main_pc, s_running, s_window, s_idle, s_label>>
    /\ UNCHANGED <<vars_terminal, cascade_vars>>

\* camera_loop, line 85: while self.running
simple_camera_while ==
    /\ s_cam_pc = "while"
    /\ s_cam_pc' = IF s_running THEN "capture" ELSE "done"
    /\ UNCHANGED <<s_main_pc, s_running, s_picam2, s_window, s_idle, s_label>>
    /\ UNCHANGED <<vars_terminal, cascade_vars>>

\* camera_loop, line 88: self.picam2.capture_array().  On a camera that is
\* not running the call gives no frame: it raises or does not return.
simple_camera_capture ==
    /\ s_cam_pc = "capture"
    /\ \/ /\ s_picam2 = "started"
          /\ s_cam_pc' = "frame"
       \/ s_cam_pc' = "handler"
       \/ /\ s_picam2 # "started"
          /\ s_cam_pc' = "hung"
    /\ UNCHANGED <<s_main_pc, s_running, s_picam2, s_window, s_idle, s_label>>
    /\ UNCHANGED <<vars_terminal, cascade_vars>>

\* camera_loop, lines 89-107: detect and draw the faces, resize and
\* convert the frame; ImageTk.PhotoImage(img_pil) raises once the window
\* is destroyed
simple_camera_frame ==
    /\ s_cam_pc = "frame"
    /\ s_cam_pc' = IF s_window = "alive" THEN "schedule" ELSE "handler"
    /\ UNCHANGED <<s_main_pc, s_running, s_picam2, s_window, s_idle, s_label>>
    /\ UNCHANGED <<vars_terminal, cascade_vars>>

\* camera_loop, lines 110-112: self.root.after_idle(self.update_video,
\* img_tk); time.sleep(0.033).  The call raises once the window is
\* destroyed.
simple_camera_schedule ==
    /\ s_cam_pc = "schedule"
    /\ IF s_window = "alive"
       THEN /\ s_idle < MaxIdle
            /\ s_idle' = s_idle + 1
            /\ s_cam_pc' = "while"
       ELSE /\ s_cam_pc' = "handler"
            /\ UNCHANGED s_idle
    /\ UNCHANGED <<s_main_pc, s_running, s_picam2, s_window, s_label>>
    /\ UNCHANGED <<vars_terminal, cascade_vars>>

\* camera_loop, lines 114-116: except Exception: print, time.sleep(0.1)
simple_camera_handler ==
    /\ s_cam_pc = "handler"
    /\ s_cam_pc' = "while"
    /\ UNCHANGED <<s_main_pc, s_running, s_picam2, s_window, s_idle, s_label>>
    /\ UNCHANGED <<vars_terminal, cascade_vars>>

SimpleNext ==
    \/ simple_run
    \/ simple_update_video
    \/ simple_exit_app_running
    \/ simple_exit_app_stop
    \/ simple_exit_app_destroy
    \/ simple_finally
    \/ simple_exit
    \/ simple_camera_start
    \/ simple_camera_while
    \/ simple_camera_capture
    \/ simple_camera_frame
    \/ simple_camera_schedule
    \/ simple_camera_handler

SimpleSpec == SimpleInit /\ [][SimpleNext]_vars

\* ----------------------------------------------------------------- claims

\* C1: at most one verification thread started by process_verification is
\* in flight in any reachable state.
AtMostOneVerification == Cardinality(InFlightThreads) <= 1

\* a face is in front of the camera while a request is in flight, and the
\* gate of line 514 is about to turn it down
AtMostOneVerificationWitness ==
    \E i \in VThreads :
        v_pc[i] = "post" /\ cam_pc = "gate" /\ cam_faces /\ processing

\* C2: two successive dispatches are more than face_detection_timeout
\* seconds apart, whenever the first verification finished.
Cooldown ==
    Len(dispatches) = 2 =>
        dispatches[2] - dispatches[1] > FaceDetectionTimeout

\* a second dispatch has been made and its verification is in flight
CooldownWitness == Len(dispatches) = 2 /\ InFlightThreads # {}

\* C3: the frame queue never holds more than 2 frames.
FrameQueueBounded == Len(frame_queue) <= 2

\* the queue is full and the producer comes with another frame
FrameQueueBoundedWitness == Len(frame_queue) = 2 /\ cam_pc = "offer"

\* C4: a step of the camera thread taken while the queue holds 2 frames
\* leaves the queue as it is, and the step that offers the frame goes
\* straight on to the detection gate.
DiscardWhenFull ==
    [][(camera_loop /\ Len(frame_queue) = 2) =>
          /\ frame_queue' = frame_queue
          /\ cam_pc = "offer" => cam_pc' = "gate"]_vars

\* the frame of this iteration (with a face) is not the last of the full
\* queue: it was discarded
DiscardWhenFullWitness ==
    /\ cam_pc = "gate"
    /\ cam_faces
    /\ Len(frame_queue) = FrameQueueMaxSize
    /\ ~frame_queue[Len(frame_queue)].face

\* C5: while a verification is in flight the camera thread always has a
\* next step to take: it never waits for the verification.
CameraNeverWaits == (processing /\ CamRunning) => ENABLED camera_loop

\* a request is in flight and the camera thread is about to enqueue a frame
\* it captured after the dispatch
CameraNeverWaitsWitness ==
    \E i \in VThreads : v_pc[i] = "post" /\ cam_pc = "put" /\ processing

\* C6: a verification is dispatched only for a frame whose predecessor
\* contained a face too, never for an isolated face-containing frame (the
\* first frame after start-up included).
StableDetectionOnly == [][process_verification_start => ~face_isolated]_vars

\* C7: once the capture thread has started the camera and while its loop
\* runs, no other thread operates on the camera; cleanup (picam2.stop() on
\* the main thread) is the only camera operation outside camera_loop.
CameraOwnedExclusively ==
    [][(picam2 = "started" /\ CamRunning) => ~cleanup]_vars

\* C8: every started verification leads to processing = False, as long as
\* the process lives.
ProcessingEventuallyReset ==
    (InFlightThreads # {}) ~> (~processing \/ ~Alive)

\* the one verification made so far is over and processing is False, with
\* "Procesando..." still on screen: showing the result and showing the
\* error both failed
ProcessingEventuallyResetWitness ==
    /\ Len(dispatches) = 1
    /\ InFlightThreads = {}
    /\ ~processing
    /\ message = "processing"
    /\ Alive

\* C9: after a failed connectivity check is_online is False, and the poll
\* thread has a next step to take.
FailedCheckOffline ==
    /\ check_failed => ~is_online
    /\ poll_pc \in {"check", "update"} => ENABLED check

\* the terminal was online and the check of this iteration failed
FailedCheckOfflineWitness ==
    poll_pc = "update" /\ check_failed /\ ~is_online

\* C10: no step takes the camera thread out of its loop, short of the end
\* of the process.
LoopSurvivesExceptions ==
    [][CamRunning => (cam_pc' = "killed" \/ CamRunning')]_vars

\* an exception of the iteration has been caught
LoopSurvivesExceptionsWitness == cam_pc = "handler" /\ picam2 = "started"

\* C11: the frames the UI-refresh thread displays were all put in the queue
\* by the camera thread, and they are displayed in the order in which they
\* were put there (the order of capture), none of them twice.
FramesInOrder ==
    /\ \A k \in 1..Len(shown) : shown[k] \in enqueued
    /\ \A j, k \in 1..Len(shown) : j < k => shown[j] < shown[k]

\* two frames have been displayed and a captured frame was discarded
FramesInOrderWitness ==
    /\ Len(shown) >= 2
    /\ Cardinality(enqueued) < frame_no
    /\ cam_pc = "gate"

OnlineReadDecides ==
    [][\A i \in VThreads :
          /\ (v_pc'[i] = "post" /\ v_pc[i] # "post") =>
                (v_pc[i] = "read_online" /\ is_online)
          /\ (v_pc[i] = "read_online" /\ v_pc'[i] \notin {"read_online", "killed"}) =>
                (~is_online /\ v_pc'[i] = "show_offline") \/ (is_online /\ v_pc'[i] = "post")
          /\ (v_pc[i] = "show_offline" /\ v_pc'[i] \notin {"show_offline", "killed"}) =>
                \/ v_pc'[i] = "finally" /\ message' = "offline_unavailable"
                \/ v_pc'[i] = "handler"
      ]_vars

\* a thread is in the offline branch, having read False, although the
\* terminal is online by now
OnlineReadDecidesWitness ==
    /\ \E i \in VThreads : v_pc[i] = "show_offline"
    /\ is_online
    /\ processing

\* C14: an iteration of the camera loop goes on to dispatch (calls
\* process_verification, which raises the flag) exactly when its frame has
\* a face, processing is False and more than face_detection_timeout seconds
\* have passed since last_detection_time; every step of the camera thread
\* outside such a dispatch leaves last_detection_time and processing as
\* they are.
DispatchGate ==
    [][/\ (cam_pc = "gate" /\ cam_pc' \notin {"gate", "killed"}) =>
            /\ (cam_pc' = "time") = (cam_faces /\ ~processing)
            /\ cam_pc' \in {"time", "capture"}
       /\ (cam_pc = "time" /\ cam_pc' \notin {"time", "killed"}) =>
            /\ cam_faces /\ ~processing
            /\ (cam_pc' = "pv_set") =
                   (now - last_detection_time > FaceDetectionTimeout)
            /\ cam_pc' \in {"pv_set", "capture"}
       /\ (cam_pc' = "pv_set" /\ cam_pc # "pv_set") => cam_pc = "time"
       /\ (camera_loop /\ cam_pc # "pv_set" /\ cam_pc' # "pv_set") =>
            UNCHANGED <<last_detection_time, processing>>
      ]_vars

\* after an earlier dispatch the camera thread sees a face with processing
\* False before the cooldown is over: the detection is suppressed
DispatchGateWitness ==
    /\ cam_pc = "time"
    /\ Len(dispatches) >= 1
    /\ now > last_detection_time
    /\ now - last_detection_time <= FaceDetectionTimeout

\* C16: while the program runs, processing is True exactly when a
\* verification thread is in flight or the camera thread is about to start
\* one (it has raised the flag at line 537 and not yet reached line 577).
ProcessingTracksVerification ==
    Alive => (processing <=> (InFlightThreads # {} \/ cam_pc = "pv_start"))

\* C17: a Tk timer that fires while a verification has shown its
\* "Procesando..." and not yet its result does not find that message on the
\* screen to replace it.
MessageFollowsVerification ==
    [][mainloop_timer =>
          ~(/\ message = "processing"
            /\ \E i \in VThreads :
                  v_pc[i] \in {"read_online", "post", "show_success",
                               "show_failed", "show_offline"})
      ]_vars

\* the first path of the list that exists and gives a non-empty
\* classifier, 0 if there is none
FirstUsable ==
    IF \E p \in CascadePaths : c_paths[p] = "valid"
    THEN CHOOSE p \in CascadePaths :
            /\ c_paths[p] = "valid"
            /\ \A q \in CascadePaths : c_paths[q] = "valid" => p <= q
    ELSE 0

\* C15: a program that gets past the loading holds the classifier of the
\* first path, in list order, that exists and gives a non-empty classifier;
\* loading fails exactly when there is no such path, and then the camera
\* is never created nor started.
CascadeFirstUsable ==
    /\ c_pc \in {"camera", "running"} =>
          (FirstUsable # 0 /\ c_cascade = FirstUsable)
    /\ c_pc = "failed" => (FirstUsable = 0 /\ c_camera = "none")
    /\ c_camera # "none" => c_pc = "running"

\* the first path is missing, the second gives an empty classifier, the
\* third is used and the camera runs
CascadeFirstUsableWitness ==
    /\ c_pc = "running"
    /\ c_paths[1] = "missing"
    /\ c_paths[2] = "empty"
    /\ c_cascade = 3

\* C18: once exit_app has set running to False and stopped the camera, the
\* camera thread of terminal_simple.py makes no further call of
\* capture_array and no further call of root.after_idle.
SimpleCleanShutdown ==
    [][(~s_running /\ s_picam2 = "stopped") =>
          ~(simple_camera_capture \/ simple_camera_schedule)
      ]_vars

====
